---------------------------- MODULE Spec2Model ----------------------------
(***************************************************************************)
(* The geofenced live feed and notification engine of AppContent           *)
(* (src/frontend/src/App.js, the component that starts at line 4608).      *)
(*                                                                         *)
(* React state is modelled at the granularity of one handler: an action is *)
(* one event handler, timer callback or promise continuation together with *)
(* the render it causes and the effects that render runs.  A closure       *)
(* created by a render keeps the values of that render; a functional       *)
(* update (setX(prev => ...)) reads the state as it is when it is applied. *)
(*                                                                         *)
(* Latitudes are integers in units of 0.001 degree; every modelled point   *)
(* lies on one meridian, where the haversine formula reduces to            *)
(* R * |dLat| (dLon = 0 gives a = sin^2(dLat/2) and c = |dLat| in radians).*)
(***************************************************************************)
EXTENDS Integers, FiniteSets, Sequences, Bags, TLC

\* ------------------------------------------------------------------ bounds
MaxId == 2
MaxInFlight == 2
MaxLocating == 2
MaxShown == 3

Ids == 1..MaxId

\* --------------------------------------------------------------- constants
EarthRadiusKm == 6371
PiNum == 355
PiDen == 113
nearbyRadius == 1
DefaultRadiusKm == 105
DefaultLat == 51505
MinRadiusKm == 5
RadiusStep == 5

\* userLocation is null or the array [latitude, longitude]; here <<>> or <<lat>>.
NoLocation == <<>>
\* localStorage.getItem: null, or the value last written.
Absent == [has |-> FALSE, val |-> {}]
Saved(v) == [has |-> TRUE, val |-> v]
\* A stored string that is not the JSON text of an array: "" or unparsable text.
Text(txt) == [has |-> TRUE, val |-> {}, text |-> txt]
\* No timer handle / no pending POST.
NoTimer == {}
NoSubmit == [busy |-> FALSE, my |-> {}, id |-> 0]
\* PostPage is not mounted / no toggleFavorite yet.
NoPostPage == [open |-> FALSE, postId |-> 0, isFavorited |-> FALSE]
NoToggle == [on |-> FALSE, id |-> 0, before |-> {}, run |-> 0]
\* No requestLocation call is pending.
NoLocating == [check |-> 0, sensor |-> 0]
\* The notification banner, not tracked (on is TRUE when it is tracked): notification is null (0) or
\* the number of the showNotification call that set it; hides and clears are
\* the pending 5 s and 300 ms timers, oldest first, each with the number of
\* its call.
NoBanner == [on |-> FALSE, serial |-> 0, notification |-> 0, show |-> FALSE,
             hides |-> <<>>, clears |-> <<>>]
\* The post form as useState initialises it, not tracked (on is TRUE when the
\* form is tracked).
\* toast: the 'Please fill in all required fields' toast is on screen.
NoPost == [on |-> FALSE, drawer |-> FALSE, image |-> FALSE, title |-> FALSE,
           latitude |-> NoLocation, toast |-> FALSE]
\* Location requests outside requestLocation, not tracked (on is TRUE when they
\* are tracked): checks are
\* processImage calls awaiting checkLocationPermission, queries are pending
\* getCurrentPosition calls, each with its caller and the userLocation of its
\* closure; pageLocation is PostPage's own userLocation state.
NoGeo == [on |-> FALSE, checks |-> {}, queries |-> {}, pageLocation |-> NoLocation,
          last |-> "none", ended |-> FALSE]
\* mapCenter initial state, [51.505, -0.09]: its latitude.
DefaultCenter == <<DefaultLat>>

\* searchQuery: "" or a text, which stands for the set of items whose title,
\* description or category contains it.
NoQuery == [typed |-> FALSE, match |-> {}]
Query(K) == [typed |-> TRUE, match |-> K]

\* Latitudes the geolocation sensor may report, and the latitude of item id.
UserLats == {<<0>>}
PostLat(id) == 12 * ((id - 1) % 2)
\* Latitudes of a user for whom the browse radius decides what is listed.
ViewLats == {<<60>>, <<100>>}
\* post.category of item id.
PostCat(id) == IF (id \div 2) % 2 = 0 THEN "furniture" ELSE "electronics"
\* Positions of the radius slider (min 5, step 5) that the model uses.
Radii == {MinRadiusKm, MinRadiusKm + RadiusStep, DefaultRadiusKm}

VARIABLES
  server,                     \* item directory service: id -> status
  posts,                      \* feed snapshot: id -> status in the list
  lastSeenPostIds,            \* SeenSet
  myPostIds,                  \* OwnedPostSet
  nearbyNotificationsEnabled, \* NotificationsEnabled
  userLocation,               \* current location
  lsSeen, lsMy, lsEnabled,    \* localStorage 'ucycle_seen_posts', 'ucycle_my_posts',
                              \* 'ucycle_nearby_notifications'
  mounted,                    \* AppContent is mounted
  timers,                     \* armed setInterval timers, each with its closure
  interval,                   \* the timer the current poll effect armed
  inflight,                   \* bag of pending GET /posts requests
  submit,                     \* the pending POST /posts of handleSubmitPost
  notified,                   \* history: kind -> ids an event was ever raised for
  raised,                     \* history: events the last step raised
  baseline,                   \* history: the first successful fetch since mount
  fetchLog,                   \* history (when switched on): outcome of the fetch the
                              \* last step resolved; whether a tick has failed
  favorites,                  \* FavoriteSet
  lsFav,                      \* localStorage 'ucycle_favorites'
  postPage,                   \* PostPage: mounted?, its postId, its isFavorited
  crashed,                    \* a state initialiser threw during render
  favHist,                    \* history: the last toggleFavorite and the set before it
  filteredPosts,              \* ids of the items in filteredPosts
  radiusKm,                   \* browse radius
  selectedCategory,           \* category filter ("" for null)
  showFavoritesOnly,          \* favorites-only filter
  search,                     \* searchQuery, and whether its debounce timer is armed
  permission,                 \* browser: geolocation permission state, Permissions
                              \* API, navigator.geolocation
  mapCenter,                  \* map center
  locationError,              \* locationError ("" for null)
  locating,                   \* pending requestLocation calls: how many await the
                              \* permission check, how many getCurrentPosition
  measured,                   \* history: the last call of getDistance and its result
  banner,                     \* notification and showNotificationBanner, the pending
                              \* auto-hide timers (when the banner is tracked)
  newPost,                    \* the post form: showPostDrawer and newPost's required
                              \* fields (when the form is tracked)
  lsFull,                     \* localStorage.setItem throws (the quota is exceeded)
  geo                         \* the form's and PostPage's pending permission checks
                              \* and getCurrentPosition calls; history: how the last
                              \* location request ended (when tracked)

pollVars == <<server, posts, lastSeenPostIds, myPostIds, nearbyNotificationsEnabled,
              userLocation, lsSeen, lsMy, lsEnabled, mounted, timers, interval,
              inflight, submit, notified, raised, baseline, fetchLog>>
favVars == <<favorites, lsFav, postPage, crashed, favHist>>
viewVars == <<filteredPosts, radiusKm, selectedCategory, showFavoritesOnly, search>>
locVars == <<permission, mapCenter, locationError, locating>>
extVars == <<measured, banner, newPost, geo, lsFull>>

vars == <<server, posts, lastSeenPostIds, myPostIds, nearbyNotificationsEnabled,
          userLocation, lsSeen, lsMy, lsEnabled, mounted, timers, interval,
          inflight, submit, notified, raised, baseline, fetchLog,
          favVars, viewVars, locVars, extVars>>

\* ----------------------------------------------------------- pure helpers
Abs(x) == IF x < 0 THEN -x ELSE x

\* Haversine distance on one meridian, in metres (rounded down).
getDistance(lat1, lat2) ==
  (EarthRadiusKm * PiNum * Abs(lat2 - lat1)) \div (PiDen * 180)

\* ------------------------------------------------- getDistance in two dimensions
\* JavaScript numbers are modelled in fixed point, FScale units to 1, with
\* products and quotients rounded toward zero (like IEEE rounding, the same
\* for x and -x).  Math.sin, Math.cos, Math.sqrt and Math.atan2 are modelled by
\* polynomial approximations.  Points are <<latitude, longitude>> in degrees.
FScale == 10000
Quot(a, b) == IF a < 0 THEN -((-a) \div b) ELSE a \div b
Mul(x, y) == Quot(x * y, FScale)
\* deg * Math.PI / 180
ToRad(deg) == Quot(deg * PiNum * FScale, PiDen * 180)
\* Math.sin(x), Math.cos(x) for |x| <= pi/2: Taylor polynomials.
Sin(x) ==
  LET x2 == Mul(x, x)
      x4 == Mul(x2, x2)
      x6 == Mul(x4, x2)
  IN  Mul(x, FScale - Quot(x2, 6) + Quot(x4, 120) - Quot(x6, 5040))
Cos(x) ==
  LET x2 == Mul(x, x)
      x4 == Mul(x2, x2)
      x6 == Mul(x4, x2)
  IN  FScale - Quot(x2, 2) + Quot(x4, 24) - Quot(x6, 720)
\* Math.sqrt(v) for 0 <= v <= 1.
RECURSIVE Root(_, _, _)
Root(n, lo, hi) ==
  IF lo >= hi THEN lo
  ELSE LET mid == (lo + hi + 1) \div 2
       IN  IF mid * mid <= n THEN Root(n, mid, hi) ELSE Root(n, lo, mid - 1)
Sqrt(v) == Root(v * FScale, 0, FScale)
\* Math.atan(t) for 0 <= t <= 1: t * pi/4 + 0.273 * t * (1 - t).
Atan(t) ==
  Mul(t, Quot(PiNum * FScale, PiDen * 4)) + Mul(Mul(Quot(273 * FScale, 1000), t), FScale - t)
\* Math.atan2(y, x) for y >= 0 and x >= 0.
Atan2(y, x) ==
  IF y = 0 THEN 0
  ELSE IF y <= x THEN Atan(Quot(y * FScale, x))
  ELSE Quot(PiNum * FScale, PiDen * 2) - Atan(Quot(x * FScale, y))

\* Mutant of getDistanceLatLon: cos(lat1) is used twice, cos(lat2) never.
getDistanceOwnCos(lat1, lon1, lat2, lon2) ==
  LET dLat == ToRad(lat2 - lat1)
      dLon == ToRad(lon2 - lon1)
      a == Mul(Sin(Quot(dLat, 2)), Sin(Quot(dLat, 2)))
           + Mul(Mul(Mul(Cos(ToRad(lat1)), Cos(ToRad(lat1))), Sin(Quot(dLon, 2))),
                 Sin(Quot(dLon, 2)))
      c == 2 * Atan2(Sqrt(a), Sqrt(FScale - a))
  IN  EarthRadiusKm * c

\* getDistance(lat1, lon1, lat2, lon2): the haversine formula; the result in
\* units of 1/FScale km.
getDistanceLatLon(lat1, lon1, lat2, lon2) ==
  LET dLat == ToRad(lat2 - lat1)
      dLon == ToRad(lon2 - lon1)
      a == Mul(Sin(Quot(dLat, 2)), Sin(Quot(dLat, 2)))
           + Mul(Mul(Mul(Cos(ToRad(lat1)), Cos(ToRad(lat2))), Sin(Quot(dLon, 2))),
                 Sin(Quot(dLon, 2)))
      c == 2 * Atan2(Sqrt(a), Sqrt(FScale - a))
  IN  EarthRadiusKm * c

\* The points getDistance is called with, and no call yet.
Points == {-34, 0, 52, 60} \X {-70, 0, 100}
NoMeasure == [done |-> FALSE, from |-> <<0, 0>>, to |-> <<0, 0>>, km |-> 0]

\* The list GET /posts returns: every non-removed item with its status.
FeedOf(srv) ==
  [id \in Ids |-> IF srv[id] \in {"active", "collected"} THEN srv[id] ELSE "none"]

EmptyFeed == [id \in Ids |-> "none"]
PostIds(feed) == {id \in Ids : feed[id] # "none"}

\* Mutant of filterPostsByRadius: the comparison is inverted (distance >= radius).
filterPostsByRadiusOutside(allPosts, location, radius) ==
  IF location = NoLocation THEN allPosts
  ELSE {id \in allPosts : getDistance(location[1], PostLat(id)) >= radius * 1000}

\* filterPostsByRadius(allPosts, location, radius), on the ids of the list.
filterPostsByRadius(allPosts, location, radius) ==
  IF location = NoLocation THEN allPosts
  ELSE {id \in allPosts : getDistance(location[1], PostLat(id)) <= radius * 1000}

\* The 'Re-filter posts' useEffect on a render with (feed ids, location, radius);
\* shown is filteredPosts before the effect.
Refilter(allPosts, location, radius, shown) ==
  IF allPosts # {} /\ location # NoLocation
  THEN filterPostsByRadius(allPosts, location, radius)
  ELSE shown

\* handleSearch(query) on the list: the keyword results.
keywordResults(allPosts, query) == allPosts \cap query.match

\* setLocationError texts of requestLocation.
NotSupported == "Geolocation is not supported by your browser"
PermissionDenied == "Location permission denied"
SensorErrors == {"Location permission denied. Please enable location access.",
                 "Location information unavailable",
                 "Location request timed out",
                 "Unknown location error"}

\* checkLocationPermission(): 'prompt' where navigator.permissions is missing or
\* the query throws, else the state the query reports.
checkLocationPermission ==
  IF permission.api # "ok" THEN "prompt" ELSE permission.state

\* saved ? ... : ... takes the first branch: saved is neither null nor "".
Truthy(saved) == saved.has /\ saved # Text("")

\* JSON.parse(saved) throws a SyntaxError.
ParseThrows(saved) == Truthy(saved) /\ "text" \in DOMAIN saved

\* saved ? JSON.parse(saved) : [], where JSON.parse does not throw
LoadIds(saved) == IF saved.has THEN saved.val ELSE {}

\* saved === null ? true : saved === 'true'
LoadFlag(saved) == IF saved = "null" THEN TRUE ELSE saved = "true"

\* ------------------------------------------------------------- bag helpers
BagAdd(B, e) == B (+) SetToBag({e})
BagRemove(B, e) == B (-) SetToBag({e})

\* Every pending tick belongs to a poll effect that has been cleaned up.
TearDown(B) ==
  LET T(r) == IF r.kind = "tick" THEN [r EXCEPT !.torn = TRUE] ELSE r
      S == {T(r) : r \in BagToSet(B)}
      N(s) == (IF BagIn(s, B) THEN B[s] ELSE 0)
              + (IF s.kind = "tick" /\ BagIn([s EXCEPT !.torn = FALSE], B)
                 THEN B[[s EXCEPT !.torn = FALSE]] ELSE 0)
  IN  [s \in S |-> N(s)]

\* Requests pending: the GETs and the POST.
Pending == BagCardinality(inflight) + (IF submit.busy THEN 1 ELSE 0)
Room == Pending < MaxInFlight

\* A pending GET /posts carries the list the service answers with (the request
\* may still fail on its way back) and, for a tick, the closure that sent it.
FetchPostsReq(data) == [kind |-> "fetchPosts", data |-> data]
TickReq(c, data) == [kind |-> "tick", loc |-> c.loc, my |-> c.my, seen |-> c.seen,
                     data |-> data, torn |-> FALSE]

\* -------------------------------------------------------- effects of render
\* The closure of checkForUpdates created by a render with these values.
Closure(loc, my, seen) == [loc |-> loc, my |-> my, seen |-> seen]

\* Mutant of PollCleanup: clearInterval(interval) is not called.
PollCleanupNone == timers

\* Cleanup of the previous poll effect: clearInterval(interval).
PollCleanup == timers \ interval

\* Mutant of PollEffect: the effect returns no cleanup, so the previous timer
\* stays armed.
PollEffectNoCleanup(loc, my, seen, enabled) ==
  /\ interval' = IF enabled THEN {Closure(loc, my, seen)} ELSE NoTimer
  /\ timers' = IF enabled THEN timers \cup {Closure(loc, my, seen)} ELSE timers

\* The polling useEffect re-runs: cleanup, then (if enabled) setInterval.
PollEffect(loc, my, seen, enabled) ==
  /\ interval' = IF enabled THEN {Closure(loc, my, seen)} ELSE NoTimer
  /\ timers' = IF enabled THEN PollCleanup \cup {Closure(loc, my, seen)}
                          ELSE PollCleanup

\* Mutant of Baseline: the test lastSeenPostIds.length === 0 is missing.
BaselineAnyLength(feed, seen) == PostIds(feed) # {}

\* 'Mark initial posts as seen' useEffect, on a render with (feed, seen).
Baseline(feed, seen) == PostIds(feed) # {} /\ seen = {}
AfterBaseline(feed, seen) == IF Baseline(feed, seen) THEN PostIds(feed) ELSE seen

\* ------------------------------------------------------- history variables
NoEvents == raised' = {} /\ UNCHANGED notified

\* No successful fetch yet / the ids of the first one.
NotFetched == [done |-> FALSE, ids |-> {}]
FirstFetch(feed) ==
  IF baseline.done THEN baseline ELSE [done |-> TRUE, ids |-> PostIds(feed)]

\* The fetch log, switched off / switched on with nothing logged yet.
NoFetch == [on |-> FALSE, kind |-> "none", ok |-> FALSE, tickFailed |-> FALSE]
Logging == [on |-> TRUE, kind |-> "none", ok |-> FALSE, tickFailed |-> FALSE]
\* The step resolves request r with this outcome / resolves no request.
Resolved(r, ok) ==
  IF ~fetchLog.on THEN fetchLog
  ELSE [on |-> TRUE, kind |-> r.kind, ok |-> ok,
        tickFailed |-> fetchLog.tickFailed \/ (r.kind = "tick" /\ ~ok)]
Unresolved == [fetchLog EXCEPT !.kind = "none", !.ok = FALSE]

Quiet == NoEvents /\ UNCHANGED baseline /\ fetchLog' = Unresolved

\* The toggle history switched on, nothing toggled yet.
ToggleLog == [on |-> TRUE, id |-> 0, before |-> {}, run |-> 0]
\* History (when switched on): postId is toggled, the set was `before`; run
\* counts the toggles of postId in a row (1, or 2 for two or more).
Toggled(postId, before) ==
  IF ~favHist.on THEN favHist
  ELSE [on |-> TRUE, id |-> postId, before |-> before,
        run |-> IF favHist.id = postId THEN 2 ELSE 1]
\* Something other than toggleFavorite happens to FavoriteSet.
NotToggled == [favHist EXCEPT !.id = 0, !.before = {}, !.run = 0]

\* showNotification(message, type) on banner state b.
showNotification(b) ==
  IF ~b.on THEN b
  ELSE [b EXCEPT !.serial = @ + 1, !.notification = b.serial + 1, !.show = TRUE,
                 !.hides = Append(@, b.serial + 1)]

\* n calls of showNotification in a row.
RECURSIVE ShowAll(_, _)
ShowAll(b, n) == IF n = 0 THEN b ELSE ShowAll(showNotification(b), n - 1)

\* The step leaves favorites, view and location state alone.
Rest == UNCHANGED <<favVars, viewVars, locVars, extVars>>

\* setPosts(feed) and setFilteredPosts(shown), and the render that follows: the
\* re-filter effect runs and the debounced-search effect re-arms its timer.
FeedShown(feed, shown) ==
  /\ filteredPosts' = Refilter(PostIds(feed), userLocation, radiusKm, shown)
  /\ search' = [search EXCEPT !.timer = TRUE]
  /\ UNCHANGED <<radiusKm, selectedCategory, showFavoritesOnly>>

\* ------------------------------------------------------------------- Init
\* Initial state of the favorites, view and location state of AppContent.
FavInit ==
  /\ lsFav = Absent
  /\ favorites = LoadIds(lsFav)
  /\ postPage = NoPostPage
  /\ crashed = FALSE
  /\ favHist = NoToggle

ViewInit ==
  /\ filteredPosts = {}
  /\ radiusKm = DefaultRadiusKm
  /\ selectedCategory = ""
  /\ showFavoritesOnly = FALSE
  /\ search = [query |-> NoQuery, timer |-> TRUE]

\* A browser with geolocation and the Permissions API, permission granted; the
\* 'Get user location on mount' effect has called requestLocation.
LocInit ==
  /\ permission = [state |-> "granted", api |-> "ok", geo |-> TRUE]
  /\ mapCenter = DefaultCenter
  /\ locationError = ""
  /\ locating = [check |-> 1, sensor |-> 0]

\* Nothing else has happened yet.
ExtInit ==
  /\ measured = NoMeasure
  /\ lsFull = FALSE
  /\ banner = NoBanner
  /\ newPost = NoPost
  /\ geo = NoGeo

PollInit ==
  /\ server \in [Ids -> {"none", "active"}]
  /\ posts = EmptyFeed
  /\ lsSeen = Absent /\ lsMy = Absent /\ lsEnabled = "null"
  /\ lastSeenPostIds = LoadIds(lsSeen)
  /\ myPostIds = LoadIds(lsMy)
  /\ nearbyNotificationsEnabled = LoadFlag(lsEnabled)
  /\ userLocation = NoLocation
  /\ mounted = TRUE
  /\ interval = {Closure(NoLocation, {}, {})}
  /\ timers = interval
  /\ inflight = SetToBag({FetchPostsReq(FeedOf(server))})
  /\ submit = NoSubmit
  /\ notified = [k \in {"nearby", "collected"} |-> {}]
  /\ raised = {}
  /\ baseline = NotFetched

Init == PollInit /\ fetchLog = NoFetch /\ FavInit /\ ViewInit /\ LocInit /\ ExtInit

\* ------------------------------------------------- item directory service
\* Another user posts an item.
ServerCreate(id) ==
  /\ server[id] = "none"
  /\ server' = [server EXCEPT ![id] = "active"]
  /\ Quiet
  /\ UNCHANGED <<posts, lastSeenPostIds, myPostIds, nearbyNotificationsEnabled,
                 userLocation, lsSeen, lsMy, lsEnabled, mounted, timers, interval,
                 inflight, submit>>
  /\ Rest

\* PATCH /posts/{id}/collected by whoever picked the item up.
ServerCollect(id) ==
  /\ server[id] = "active"
  /\ server' = [server EXCEPT ![id] = "collected"]
  /\ Quiet
  /\ UNCHANGED <<posts, lastSeenPostIds, myPostIds, nearbyNotificationsEnabled,
                 userLocation, lsSeen, lsMy, lsEnabled, mounted, timers, interval,
                 inflight, submit>>
  /\ Rest

\* The item is removed (moderation) and leaves the list.
ServerRemove(id) ==
  /\ server[id] = "active"
  /\ server' = [server EXCEPT ![id] = "removed"]
  /\ Quiet
  /\ UNCHANGED <<posts, lastSeenPostIds, myPostIds, nearbyNotificationsEnabled,
                 userLocation, lsSeen, lsMy, lsEnabled, mounted, timers, interval,
                 inflight, submit>>
  /\ Rest


\* ------------------------------------------------------------- fetchPosts
\* fetchPosts() from a click handler (the refresh button): the GET is sent.
FetchPostsStart ==
  /\ mounted
  /\ Room
  /\ inflight' = BagAdd(inflight, FetchPostsReq(FeedOf(server)))
  /\ Quiet
  /\ UNCHANGED <<server, posts, lastSeenPostIds, myPostIds, nearbyNotificationsEnabled,
                 userLocation, lsSeen, lsMy, lsEnabled, mounted, timers, interval,
                 submit>>
  /\ Rest

\* Mutant of FetchPostsDone: the catch branch clears the feed (setPosts([])).
FetchPostsDoneClearsOnError(r, ok) ==
  /\ mounted
  /\ BagIn(r, inflight)
  /\ r.kind = "fetchPosts"
  /\ lsFull => ~(ok /\ Baseline(r.data, lastSeenPostIds))
  /\ fetchLog' = Resolved(r, ok)
  /\ IF ~ok
     THEN /\ inflight' = BagRemove(inflight, r)
          /\ posts' = EmptyFeed
          /\ UNCHANGED <<lastSeenPostIds, lsSeen, timers, interval, baseline>>
          /\ UNCHANGED viewVars
     ELSE /\ posts' = r.data
          /\ FeedShown(r.data, filterPostsByRadius(PostIds(r.data), userLocation,
                                                   radiusKm))
          /\ baseline' = FirstFetch(r.data)
          /\ lastSeenPostIds' = AfterBaseline(r.data, lastSeenPostIds)
          /\ IF Baseline(r.data, lastSeenPostIds)
             THEN /\ lsSeen' = Saved(PostIds(r.data))
                  /\ PollEffect(userLocation, myPostIds, PostIds(r.data),
                                nearbyNotificationsEnabled)
                  /\ inflight' = TearDown(BagRemove(inflight, r))
             ELSE /\ inflight' = BagRemove(inflight, r)
                  /\ UNCHANGED <<lsSeen, timers, interval>>
  /\ NoEvents
  /\ UNCHANGED <<server, myPostIds, nearbyNotificationsEnabled, userLocation,
                 lsMy, lsEnabled, mounted, submit>>
  /\ UNCHANGED <<favVars, locVars>>
  /\ UNCHANGED extVars

\* The continuation of fetchPosts after its await, and the render that follows.
\* fetchPosts filters with the userLocation and radiusKm of the render that
\* created it; the re-filter effect of the render after setPosts replaces that
\* list by one filtered with the current values whenever the list is non-empty
\* and a location is set.  In the other cases the two agree: an empty list, or
\* no location now and then none in the closure (userLocation is never reset
\* while AppContent is mounted).
FetchPostsDone(r, ok) ==
  /\ mounted
  /\ BagIn(r, inflight)
  /\ r.kind = "fetchPosts"
  /\ lsFull => ~(ok /\ Baseline(r.data, lastSeenPostIds))
  /\ fetchLog' = Resolved(r, ok)
  /\ IF ~ok
     THEN /\ inflight' = BagRemove(inflight, r)
          /\ UNCHANGED <<posts, lastSeenPostIds, lsSeen, timers, interval, baseline>>
          /\ UNCHANGED viewVars
     ELSE /\ posts' = r.data
          /\ FeedShown(r.data, filterPostsByRadius(PostIds(r.data), userLocation,
                                                   radiusKm))
          /\ baseline' = FirstFetch(r.data)
          /\ lastSeenPostIds' = AfterBaseline(r.data, lastSeenPostIds)
          /\ IF Baseline(r.data, lastSeenPostIds)
             THEN /\ lsSeen' = Saved(PostIds(r.data))
                  /\ PollEffect(userLocation, myPostIds, PostIds(r.data),
                                nearbyNotificationsEnabled)
                  /\ inflight' = TearDown(BagRemove(inflight, r))
             ELSE /\ inflight' = BagRemove(inflight, r)
                  /\ UNCHANGED <<lsSeen, timers, interval>>
  /\ NoEvents
  /\ UNCHANGED <<server, myPostIds, nearbyNotificationsEnabled, userLocation,
                 lsMy, lsEnabled, mounted, submit>>
  /\ UNCHANGED <<favVars, locVars>>
  /\ UNCHANGED extVars

\* --------------------------------------------------------------- poll loop
\* The interval timer fires: checkForUpdates runs up to its await.
TimerFire(c) ==
  /\ c \in timers
  /\ Room
  /\ inflight' = BagAdd(inflight, TickReq(c, FeedOf(server)))
  /\ Quiet
  /\ UNCHANGED <<server, posts, lastSeenPostIds, myPostIds, nearbyNotificationsEnabled,
                 userLocation, lsSeen, lsMy, lsEnabled, mounted, timers, interval,
                 submit>>
  /\ Rest

\* Mutant of NearbyIds: without a location every item counts as nearby.
NearbyIdsAnywhere(t) ==
  {id \in PostIds(t.data) :
     /\ id \notin t.seen
     /\ id \notin t.my
     /\ \/ t.loc = NoLocation
        \/ getDistance(t.loc[1], PostLat(id)) <= nearbyRadius * 1000
     /\ t.data[id] = "active"}

\* Items the nearby step of tick t notifies: the forEach over currentPosts.
NearbyIds(t) ==
  IF t.loc = NoLocation THEN {}
  ELSE {id \in PostIds(t.data) :
          /\ id \notin t.seen
          /\ id \notin t.my
          /\ getDistance(t.loc[1], PostLat(id)) <= nearbyRadius * 1000
          /\ t.data[id] = "active"}

\* Mutant of CollectedIds: the lookup reads the previous feed snapshot (posts)
\* instead of the list just fetched.
CollectedIdsStaleFeed(t) == {id \in t.my : posts[id] = "collected"}

\* Mutant of CollectedIds: an own item that is not in the fetched list is
\* taken for collected too (post && is missing from the test).
CollectedIdsOrMissing(t) == {id \in t.my : t.data[id] \in {"collected", "none"}}

\* Own items the collected step of tick t notifies: the forEach over myPostIds.
CollectedIds(t) == {id \in t.my : t.data[id] = "collected"}

\* The render after tick t writes to localStorage: an updater of the nearby or
\* the collected step, or the 'mark initial posts as seen' effect.
TickWrites(t) ==
  \/ NearbyIds(t) # {}
  \/ CollectedIds(t) # {}
  \/ Baseline(t.data, lastSeenPostIds)

\* Mutant of TickResolve: the catch branch sends the GET again at once.
TickResolveRetries(t, ok) ==
  /\ mounted
  /\ BagIn(t, inflight)
  /\ t.kind = "tick"
  /\ lsFull => ~(ok /\ TickWrites(t))
  /\ fetchLog' = Resolved(t, ok)
  /\ IF ~ok
     THEN /\ inflight' = inflight
          /\ NoEvents
          /\ UNCHANGED <<posts, lastSeenPostIds, myPostIds, lsSeen, lsMy,
                         timers, interval, baseline>>
          /\ UNCHANGED viewVars
          /\ UNCHANGED banner
     ELSE LET appended == lastSeenPostIds \cup NearbyIds(t)
              seen == AfterBaseline(t.data, appended)
              my == myPostIds \ CollectedIds(t)
              rerun == \/ NearbyIds(t) # {}
                       \/ CollectedIds(t) # {}
                       \/ Baseline(t.data, appended)
          IN  /\ banner.on => banner.serial + Cardinality(NearbyIds(t))
                                + Cardinality(CollectedIds(t)) <= MaxShown
              /\ banner' = ShowAll(banner, Cardinality(NearbyIds(t))
                                            + Cardinality(CollectedIds(t)))
              /\ raised' = {<<"nearby", id>> : id \in NearbyIds(t)}
                           \cup {<<"collected", id>> : id \in CollectedIds(t)}
              /\ notified' = [notified EXCEPT
                                !["nearby"] = @ \cup NearbyIds(t),
                                !["collected"] = @ \cup CollectedIds(t)]
              /\ lastSeenPostIds' = seen
              /\ lsSeen' = IF NearbyIds(t) # {} \/ Baseline(t.data, appended)
                           THEN Saved(seen) ELSE lsSeen
              /\ myPostIds' = my
              /\ lsMy' = IF CollectedIds(t) # {} THEN Saved(my) ELSE lsMy
              /\ posts' = t.data
              /\ FeedShown(t.data, PostIds(t.data))
              /\ baseline' = FirstFetch(t.data)
              /\ IF rerun
                 THEN /\ PollEffect(userLocation, my, seen, nearbyNotificationsEnabled)
                      /\ inflight' = TearDown(BagRemove(inflight, t))
                 ELSE /\ inflight' = BagRemove(inflight, t)
                      /\ UNCHANGED <<timers, interval>>
  /\ UNCHANGED <<server, nearbyNotificationsEnabled, userLocation, lsEnabled,
                 mounted, submit>>
  /\ UNCHANGED <<favVars, locVars>>
  /\ UNCHANGED <<measured, lsFull, newPost, geo>>

\* The continuation of checkForUpdates after its await, and the render that follows.
TickResolve(t, ok) ==
  /\ mounted
  /\ BagIn(t, inflight)
  /\ t.kind = "tick"
  /\ lsFull => ~(ok /\ TickWrites(t))
  /\ fetchLog' = Resolved(t, ok)
  /\ IF ~ok
     THEN /\ inflight' = BagRemove(inflight, t)
          /\ NoEvents
          /\ UNCHANGED <<posts, lastSeenPostIds, myPostIds, lsSeen, lsMy,
                         timers, interval, baseline>>
          /\ UNCHANGED viewVars
          /\ UNCHANGED banner
     ELSE LET appended == lastSeenPostIds \cup NearbyIds(t)
              seen == AfterBaseline(t.data, appended)
              my == myPostIds \ CollectedIds(t)
              rerun == \/ NearbyIds(t) # {}
                       \/ CollectedIds(t) # {}
                       \/ Baseline(t.data, appended)
          IN  /\ banner.on => banner.serial + Cardinality(NearbyIds(t))
                                + Cardinality(CollectedIds(t)) <= MaxShown
              /\ banner' = ShowAll(banner, Cardinality(NearbyIds(t))
                                            + Cardinality(CollectedIds(t)))
              /\ raised' = {<<"nearby", id>> : id \in NearbyIds(t)}
                           \cup {<<"collected", id>> : id \in CollectedIds(t)}
              /\ notified' = [notified EXCEPT
                                !["nearby"] = @ \cup NearbyIds(t),
                                !["collected"] = @ \cup CollectedIds(t)]
              /\ lastSeenPostIds' = seen
              /\ lsSeen' = IF NearbyIds(t) # {} \/ Baseline(t.data, appended)
                           THEN Saved(seen) ELSE lsSeen
              /\ myPostIds' = my
              /\ lsMy' = IF CollectedIds(t) # {} THEN Saved(my) ELSE lsMy
              /\ posts' = t.data
              /\ FeedShown(t.data, PostIds(t.data))
              /\ baseline' = FirstFetch(t.data)
              /\ IF rerun
                 THEN /\ PollEffect(userLocation, my, seen, nearbyNotificationsEnabled)
                      /\ inflight' = TearDown(BagRemove(inflight, t))
                 ELSE /\ inflight' = BagRemove(inflight, t)
                      /\ UNCHANGED <<timers, interval>>
  /\ UNCHANGED <<server, nearbyNotificationsEnabled, userLocation, lsEnabled,
                 mounted, submit>>
  /\ UNCHANGED <<favVars, locVars>>
  /\ UNCHANGED <<measured, lsFull, newPost, geo>>

\* ----------------------------------------------------------- user actions
\* newPost.latitude as a JavaScript condition: null and 0 are falsy.
HasValue(latitude) == latitude # NoLocation /\ latitude[1] # 0
\* The form passes handleSubmitPost's check of the required fields.
FormComplete == newPost.image /\ newPost.title /\ HasValue(newPost.latitude)

\* History: a location request ended with outcome o.
Ended(g, o) == IF g.on THEN [g EXCEPT !.last = o, !.ended = ~@] ELSE g

\* setUserLocation(loc) from a geolocation success callback.  The render
\* re-creates fetchPosts, so the 'initial fetch' effect fetches again,
\* re-creates the poll effect and runs the re-filter effect.
setUserLocation(loc) ==
  /\ mounted
  /\ Room
  /\ userLocation' = loc
  /\ PollEffect(loc, myPostIds, lastSeenPostIds, nearbyNotificationsEnabled)
  /\ inflight' = BagAdd(TearDown(inflight), FetchPostsReq(FeedOf(server)))
  /\ Quiet
  /\ filteredPosts' = Refilter(PostIds(posts), loc, radiusKm, filteredPosts)
  /\ UNCHANGED <<radiusKm, selectedCategory, showFavoritesOnly, search>>
  /\ UNCHANGED <<server, posts, lastSeenPostIds, myPostIds, nearbyNotificationsEnabled,
                 lsSeen, lsMy, lsEnabled, mounted, submit>>
  /\ UNCHANGED <<favVars, permission, locationError>>
  /\ UNCHANGED <<measured, lsFull, banner>>

\* requestLocation's success callback: setUserLocation(loc), setMapCenter(loc).
Located(loc) ==
  /\ setUserLocation(loc)
  /\ mapCenter' = loc
  /\ UNCHANGED newPost

\* A position arrives; the requestLocation call it answers is not tracked (a
\* position may arrive at any time while AppContent is mounted).
LocationFound(loc) ==
  /\ Located(loc)
  /\ UNCHANGED <<locating, geo>>

toggleNearbyNotifications ==
  /\ mounted
  /\ ~lsFull
  /\ nearbyNotificationsEnabled' = ~nearbyNotificationsEnabled
  /\ lsEnabled' = IF nearbyNotificationsEnabled' THEN "true" ELSE "false"
  /\ PollEffect(userLocation, myPostIds, lastSeenPostIds, nearbyNotificationsEnabled')
  /\ inflight' = TearDown(inflight)
  /\ Quiet
  /\ UNCHANGED <<server, posts, lastSeenPostIds, myPostIds, userLocation,
                 lsSeen, lsMy, mounted, submit>>
  /\ Rest

\* handleSubmitPost up to its await: the POST is sent with the closure's
\* myPostIds; the service creates the item (id) or rejects the request (0).
SubmitStart ==
  /\ mounted
  /\ ~submit.busy
  /\ newPost.on => FormComplete
  /\ Room
  /\ \/ \E id \in Ids :
          /\ server[id] = "none"
          /\ server' = [server EXCEPT ![id] = "active"]
          /\ submit' = [busy |-> TRUE, my |-> myPostIds, id |-> id]
     \/ /\ submit' = [busy |-> TRUE, my |-> myPostIds, id |-> 0]
        /\ UNCHANGED server
  /\ Quiet
  /\ UNCHANGED <<posts, lastSeenPostIds, myPostIds, nearbyNotificationsEnabled,
                 userLocation, lsSeen, lsMy, lsEnabled, mounted, timers, interval,
                 inflight>>
  /\ Rest

\* Mutant of SubmitDone: the new own-post list is not written to localStorage.
SubmitDoneNoPersist ==
  /\ mounted
  /\ submit.busy
  /\ lsFull => submit.id = 0
  /\ submit' = NoSubmit
  /\ IF submit.id = 0
     THEN UNCHANGED <<myPostIds, lsMy, timers, interval, inflight, newPost>>
     ELSE /\ myPostIds' = submit.my \cup {submit.id}
          /\ lsMy' = lsMy
          /\ newPost' = [newPost EXCEPT !.drawer = FALSE, !.image = FALSE,
                                        !.title = FALSE, !.latitude = NoLocation]
          /\ PollEffect(userLocation, submit.my \cup {submit.id}, lastSeenPostIds,
                        nearbyNotificationsEnabled)
          /\ inflight' = BagAdd(TearDown(inflight), FetchPostsReq(FeedOf(server)))
  /\ Quiet
  /\ UNCHANGED <<server, posts, lastSeenPostIds, nearbyNotificationsEnabled,
                 userLocation, lsSeen, lsEnabled, mounted>>
  /\ UNCHANGED <<favVars, viewVars, locVars, measured, lsFull, banner, geo>>

\* Mutant of SubmitDone: the new id replaces the tracked ids.
SubmitDoneReplaces ==
  /\ mounted
  /\ submit.busy
  /\ lsFull => submit.id = 0
  /\ submit' = NoSubmit
  /\ IF submit.id = 0
     THEN UNCHANGED <<myPostIds, lsMy, timers, interval, inflight, newPost>>
     ELSE /\ myPostIds' = {submit.id}
          /\ lsMy' = Saved({submit.id})
          /\ newPost' = [newPost EXCEPT !.drawer = FALSE, !.image = FALSE,
                                        !.title = FALSE, !.latitude = NoLocation]
          /\ PollEffect(userLocation, {submit.id}, lastSeenPostIds,
                        nearbyNotificationsEnabled)
          /\ inflight' = BagAdd(TearDown(inflight), FetchPostsReq(FeedOf(server)))
  /\ Quiet
  /\ UNCHANGED <<server, posts, lastSeenPostIds, nearbyNotificationsEnabled,
                 userLocation, lsSeen, lsEnabled, mounted>>
  /\ UNCHANGED <<favVars, viewVars, locVars, measured, lsFull, banner, geo>>

\* handleSubmitPost after its await: own-post tracking, the form is closed and
\* reset, then fetchPosts(); a failed POST leaves everything as it was.
SubmitDone ==
  /\ mounted
  /\ submit.busy
  /\ lsFull => submit.id = 0
  /\ submit' = NoSubmit
  /\ IF submit.id = 0
     THEN UNCHANGED <<myPostIds, lsMy, timers, interval, inflight, newPost>>
     ELSE /\ myPostIds' = submit.my \cup {submit.id}
          /\ lsMy' = Saved(submit.my \cup {submit.id})
          /\ newPost' = [newPost EXCEPT !.drawer = FALSE, !.image = FALSE,
                                        !.title = FALSE, !.latitude = NoLocation]
          /\ PollEffect(userLocation, submit.my \cup {submit.id}, lastSeenPostIds,
                        nearbyNotificationsEnabled)
          /\ inflight' = BagAdd(TearDown(inflight), FetchPostsReq(FeedOf(server)))
  /\ Quiet
  /\ UNCHANGED <<server, posts, lastSeenPostIds, nearbyNotificationsEnabled,
                 userLocation, lsSeen, lsEnabled, mounted>>
  /\ UNCHANGED <<favVars, viewVars, locVars, measured, lsFull, banner, geo>>

\* ----------------------------------------------------------- store is full
\* An updater or an effect throws while React renders or commits: there is no
\* error boundary, so React unmounts the whole tree; effect cleanups run.
RenderError ==
  /\ mounted' = FALSE
  /\ crashed' = TRUE
  /\ timers' = PollCleanup
  /\ interval' = NoTimer
  /\ inflight' = EmptyBag
  /\ submit' = NoSubmit
  /\ locating' = NoLocating
  /\ geo' = [geo EXCEPT !.checks = {}, !.queries = {}]
  /\ UNCHANGED <<server, posts, lastSeenPostIds, myPostIds, nearbyNotificationsEnabled,
                 userLocation, lsSeen, lsMy, lsEnabled>>
  /\ UNCHANGED <<favorites, lsFav, postPage, favHist>>
  /\ UNCHANGED <<viewVars, permission, mapCenter, locationError>>
  /\ UNCHANGED <<measured, banner, newPost, lsFull>>

\* The browser's storage quota is reached, or space is freed.
StorageFull(full) ==
  /\ lsFull # full
  /\ lsFull' = full
  /\ UNCHANGED <<pollVars, favVars, viewVars, locVars, measured, banner, newPost, geo>>

\* toggleFavorite(postId) with a full store: setItem throws inside the
\* setFavorites updater.
toggleFavoriteThrows(postId) ==
  /\ mounted
  /\ lsFull
  /\ Quiet
  /\ RenderError

\* toggleNearbyNotifications with a full store: setItem throws inside the
\* setNearbyNotificationsEnabled updater.
toggleNearbyNotificationsThrows ==
  /\ mounted
  /\ lsFull
  /\ Quiet
  /\ RenderError

\* The continuation of fetchPosts with a full store, when the render after
\* setPosts runs the 'mark initial posts as seen' effect: setItem throws there.
FetchPostsDoneThrows(r) ==
  /\ mounted
  /\ lsFull
  /\ BagIn(r, inflight)
  /\ r.kind = "fetchPosts"
  /\ Baseline(r.data, lastSeenPostIds)
  /\ Quiet
  /\ RenderError

\* The continuation of checkForUpdates with a full store, when it has something
\* to write: showNotification has been called for each event, then setItem
\* throws inside an updater (or in the effect) of the render that follows.
TickResolveThrows(t) ==
  /\ mounted
  /\ lsFull
  /\ BagIn(t, inflight)
  /\ t.kind = "tick"
  /\ TickWrites(t)
  /\ raised' = {<<"nearby", id>> : id \in NearbyIds(t)}
               \cup {<<"collected", id>> : id \in CollectedIds(t)}
  /\ notified' = [notified EXCEPT
                    !["nearby"] = @ \cup NearbyIds(t),
                    !["collected"] = @ \cup CollectedIds(t)]
  /\ fetchLog' = Unresolved
  /\ UNCHANGED baseline
  /\ RenderError

\* handleSubmitPost after its await with a full store and a created item:
\* setMyPostIds, then setItem throws into the catch branch ('Failed to post
\* item'); the form stays as it is and fetchPosts() is not called.
SubmitDoneThrows ==
  /\ mounted
  /\ submit.busy
  /\ lsFull
  /\ submit.id # 0
  /\ submit' = NoSubmit
  /\ myPostIds' = submit.my \cup {submit.id}
  /\ PollEffect(userLocation, submit.my \cup {submit.id}, lastSeenPostIds,
                nearbyNotificationsEnabled)
  /\ inflight' = TearDown(inflight)
  /\ Quiet
  /\ UNCHANGED <<server, posts, lastSeenPostIds, nearbyNotificationsEnabled,
                 userLocation, lsSeen, lsMy, lsEnabled, mounted>>
  /\ UNCHANGED <<favVars, viewVars, locVars, extVars>>

\* ------------------------------------------------------------------ banner
\* The step changes the banner only.
BannerOnly ==
  /\ Quiet
  /\ UNCHANGED <<server, posts, lastSeenPostIds, myPostIds, nearbyNotificationsEnabled,
                 userLocation, lsSeen, lsMy, lsEnabled, mounted, timers, interval,
                 inflight, submit>>
  /\ UNCHANGED <<favVars, viewVars, locVars, measured, lsFull, newPost, geo>>

\* The oldest 5 s timer fires: setShowNotificationBanner(false), and the 300 ms
\* timer is started.
HideTimer ==
  /\ mounted
  /\ banner.hides # <<>>
  /\ banner' = [banner EXCEPT !.show = FALSE, !.hides = Tail(@),
                              !.clears = Append(@, Head(banner.hides))]
  /\ BannerOnly

\* The oldest 300 ms timer fires: setNotification(null).
ClearTimer ==
  /\ mounted
  /\ banner.clears # <<>>
  /\ banner' = [banner EXCEPT !.notification = 0, !.clears = Tail(@)]
  /\ BannerOnly

\* The banner's X button: setShowNotificationBanner(false).
DismissBanner ==
  /\ mounted
  /\ banner.notification # 0
  /\ banner.show
  /\ banner' = [banner EXCEPT !.show = FALSE]
  /\ BannerOnly

\* ---------------------------------------------------------------- distance
\* A call getDistance(A[0], A[1], B[0], B[1]), as formatDistance, postsInRadius,
\* filterPostsByRadius and the nearby step make it.
Measure(A, B) ==
  /\ measured' = [done |-> TRUE, from |-> A, to |-> B,
                  km |-> getDistanceLatLon(A[1], A[2], B[1], B[2])]
  /\ UNCHANGED <<pollVars, favVars, viewVars, locVars, banner, newPost, geo, lsFull>>

\* ---------------------------------------------------------------- location
\* The step changes location state only.
ViewKept ==
  /\ Quiet
  /\ UNCHANGED <<server, posts, lastSeenPostIds, myPostIds, nearbyNotificationsEnabled,
                 userLocation, lsSeen, lsMy, lsEnabled, mounted, timers, interval,
                 inflight, submit>>
  /\ UNCHANGED <<favVars, viewVars, measured, lsFull, banner, newPost>>

\* requestLocation() up to its await (the locate button; the mount effect's call
\* is part of Mount).
requestLocation ==
  /\ mounted
  /\ locating.check + locating.sensor < MaxLocating
  /\ IF ~permission.geo
     THEN /\ locationError' = NotSupported
          /\ geo' = Ended(geo, "unsupported")
          /\ UNCHANGED locating
     ELSE /\ locationError' = ""
          /\ locating' = [locating EXCEPT !.check = @ + 1]
          /\ UNCHANGED geo
  /\ UNCHANGED <<permission, mapCenter>>
  /\ ViewKept

\* Mutant of PermissionChecked: the 'denied' branch is missing, getCurrentPosition
\* is called whatever the status.
PermissionCheckedAlwaysAsks ==
  /\ mounted
  /\ locating.check > 0
  /\ locating' = [check |-> locating.check - 1, sensor |-> locating.sensor + 1]
  /\ UNCHANGED <<locationError, mapCenter>>
  /\ UNCHANGED <<permission, geo>>
  /\ ViewKept

\* requestLocation() after 'await checkLocationPermission()': the denied
\* branch, or the call of navigator.geolocation.getCurrentPosition.
PermissionChecked ==
  /\ mounted
  /\ locating.check > 0
  /\ IF checkLocationPermission = "denied"
     THEN /\ locationError' = PermissionDenied
          /\ mapCenter' = DefaultCenter
          /\ locating' = [locating EXCEPT !.check = @ - 1]
          /\ geo' = Ended(geo, "denied")
     ELSE /\ locating' = [check |-> locating.check - 1,
                          sensor |-> locating.sensor + 1]
          /\ UNCHANGED <<locationError, mapCenter, geo>>
  /\ UNCHANGED permission
  /\ ViewKept

\* The success callback of a pending getCurrentPosition.
PositionFound(loc) ==
  /\ locating.sensor > 0
  /\ Located(loc)
  /\ locating' = [locating EXCEPT !.sensor = @ - 1]
  /\ geo' = Ended(geo, "found")

\* The error callback of a pending getCurrentPosition.
PositionError(errorMsg) ==
  /\ mounted
  /\ locating.sensor > 0
  /\ locationError' = errorMsg
  /\ mapCenter' = DefaultCenter
  /\ locating' = [locating EXCEPT !.sensor = @ - 1]
  /\ geo' = Ended(geo, "error")
  /\ UNCHANGED permission
  /\ ViewKept

\* The user answers the browser's prompt or changes the site's setting.
PermissionChange(state) ==
  /\ state # permission.state
  /\ permission' = [permission EXCEPT !.state = state]
  /\ UNCHANGED <<mapCenter, locationError, locating>>
  /\ UNCHANGED geo
  /\ ViewKept

\* handleSearchResultClick on a location result: setMapCenter, setSearchQuery("").
handleSearchResultClick(lat) ==
  /\ mounted
  /\ search.query.typed
  /\ mapCenter' = lat
  /\ search' = [query |-> NoQuery, timer |-> TRUE]
  /\ UNCHANGED <<filteredPosts, radiusKm, selectedCategory, showFavoritesOnly>>
  /\ UNCHANGED <<permission, locationError, locating>>
  /\ Quiet
  /\ UNCHANGED <<server, posts, lastSeenPostIds, myPostIds, nearbyNotificationsEnabled,
                 userLocation, lsSeen, lsMy, lsEnabled, mounted, timers, interval,
                 inflight, submit>>
  /\ UNCHANGED favVars
  /\ UNCHANGED extVars

\* --------------------------------------------------------------- post form
\* The step changes the form and its location requests only.
FormKept ==
  /\ Quiet
  /\ UNCHANGED <<server, posts, lastSeenPostIds, myPostIds, nearbyNotificationsEnabled,
                 userLocation, lsSeen, lsMy, lsEnabled, mounted, timers, interval,
                 inflight, submit>>
  /\ UNCHANGED <<favVars, viewVars, locVars, measured, lsFull, banner>>

\* Pending permission checks and sensor queries, requestLocation's included.
Checks == locating.check + Cardinality(geo.checks)
Queries == locating.sensor + Cardinality(geo.queries)

\* The 'Post' button: setShowPostDrawer(true).
openDrawer ==
  /\ mounted
  /\ newPost.on
  /\ ~newPost.drawer
  /\ newPost' = [newPost EXCEPT !.drawer = TRUE]
  /\ UNCHANGED geo
  /\ FormKept

\* The title input (or the AI analysis) sets or clears newPost.title.
setTitle(filled) ==
  /\ mounted
  /\ newPost.drawer
  /\ newPost.title # filled
  /\ newPost' = [newPost EXCEPT !.title = filled]
  /\ UNCHANGED geo
  /\ FormKept

\* handleSubmitPost with a required field missing: the toast, nothing else.
SubmitRejected ==
  /\ mounted
  /\ newPost.on
  /\ ~FormComplete
  /\ newPost' = [newPost EXCEPT !.toast = TRUE]
  /\ UNCHANGED geo
  /\ FormKept

\* The toast leaves the screen.
ToastGone ==
  /\ newPost.toast
  /\ newPost' = [newPost EXCEPT !.toast = FALSE]
  /\ UNCHANGED geo
  /\ FormKept

\* processImage(base64) up to 'await checkLocationPermission()': the image is
\* set, the old location cleared, the drawer opened; without
\* navigator.geolocation the cached userLocation is used.
processImage ==
  /\ mounted
  /\ newPost.on
  /\ IF permission.geo
     THEN /\ Checks + Queries < MaxLocating
          /\ [cached |-> userLocation] \notin geo.checks
          /\ newPost' = [newPost EXCEPT !.image = TRUE, !.drawer = TRUE,
                                        !.latitude = NoLocation]
          /\ geo' = [geo EXCEPT !.checks = @ \cup {[cached |-> userLocation]}]
     ELSE /\ newPost' = [newPost EXCEPT !.image = TRUE, !.drawer = TRUE,
                                        !.latitude = userLocation]
          /\ geo' = Ended(geo, "unsupported")
  /\ FormKept

\* processImage after 'await checkLocationPermission()': getCurrentPosition
\* unless the status is 'denied'; when denied the cached location is used.
ImagePermissionChecked(c) ==
  /\ mounted
  /\ c \in geo.checks
  /\ IF checkLocationPermission = "denied"
     THEN /\ newPost' = IF c.cached # NoLocation
                        THEN [newPost EXCEPT !.latitude = c.cached]
                        ELSE newPost
          /\ geo' = Ended([geo EXCEPT !.checks = @ \ {c}], "denied")
     ELSE /\ [caller |-> "image", cached |-> c.cached] \notin geo.queries
          /\ geo' = [geo EXCEPT !.checks = @ \ {c},
                                !.queries = @ \cup {[caller |-> "image",
                                                     cached |-> c.cached]}]
          /\ UNCHANGED newPost
  /\ FormKept

\* The form's 'Refresh' button (shown when newPost.latitude is set):
\* getCurrentPosition.
RefreshLocation ==
  /\ mounted
  /\ newPost.drawer
  /\ HasValue(newPost.latitude)
  /\ permission.geo
  /\ Checks + Queries < MaxLocating
  /\ [caller |-> "refresh", cached |-> userLocation] \notin geo.queries
  /\ geo' = [geo EXCEPT !.queries = @ \cup {[caller |-> "refresh",
                                              cached |-> userLocation]}]
  /\ UNCHANGED newPost
  /\ FormKept

\* The form's 'Tap to use current location' button (shown when newPost has no
\* latitude and userLocation is set): getCurrentPosition, or the cached
\* location without navigator.geolocation.
UseCurrentLocation ==
  /\ mounted
  /\ newPost.drawer
  /\ ~HasValue(newPost.latitude)
  /\ userLocation # NoLocation
  /\ IF permission.geo
     THEN /\ Checks + Queries < MaxLocating
          /\ [caller |-> "use", cached |-> userLocation] \notin geo.queries
          /\ geo' = [geo EXCEPT !.queries = @ \cup {[caller |-> "use",
                                                      cached |-> userLocation]}]
          /\ UNCHANGED newPost
     ELSE /\ newPost' = [newPost EXCEPT !.latitude = userLocation]
          /\ geo' = Ended(geo, "unsupported")
  /\ FormKept

\* Mutant of FormPositionError: the failed request clears userLocation.
FormPositionErrorClears(q) ==
  /\ mounted
  /\ q \in geo.queries
  /\ q.caller # "page"
  /\ Room
  /\ userLocation' = NoLocation
  /\ geo' = Ended([geo EXCEPT !.queries = @ \ {q}], "error")
  /\ UNCHANGED newPost
  /\ PollEffect(NoLocation, myPostIds, lastSeenPostIds, nearbyNotificationsEnabled)
  /\ inflight' = BagAdd(TearDown(inflight), FetchPostsReq(FeedOf(server)))
  /\ Quiet
  /\ filteredPosts' = Refilter(PostIds(posts), NoLocation, radiusKm, filteredPosts)
  /\ UNCHANGED <<radiusKm, selectedCategory, showFavoritesOnly, search>>
  /\ UNCHANGED <<server, posts, lastSeenPostIds, myPostIds, nearbyNotificationsEnabled,
                 lsSeen, lsMy, lsEnabled, mounted, submit>>
  /\ UNCHANGED <<favVars, locVars, measured, lsFull, banner>>

\* The success callback of a getCurrentPosition of the form (processImage or a
\* button): newPost's location and setUserLocation.
FormPositionFound(q, loc) ==
  /\ q \in geo.queries
  /\ q.caller # "page"
  /\ setUserLocation(loc)
  /\ newPost' = [newPost EXCEPT !.latitude = loc]
  /\ geo' = Ended([geo EXCEPT !.queries = @ \ {q}], "found")
  /\ UNCHANGED <<mapCenter, locating>>

\* The error callback of a getCurrentPosition of the form: processImage and
\* 'use current location' fall back to the cached userLocation of their
\* closure, 'refresh' reports the failure.
FormPositionError(q) ==
  /\ mounted
  /\ q \in geo.queries
  /\ q.caller # "page"
  /\ newPost' = IF q.caller # "refresh" /\ q.cached # NoLocation
                THEN [newPost EXCEPT !.latitude = q.cached]
                ELSE newPost
  /\ geo' = Ended([geo EXCEPT !.queries = @ \ {q}], "error")
  /\ FormKept

\* PostPage's getCurrentPosition callbacks: its own userLocation is set, or
\* the failure is ignored.
PagePositionFound(loc) ==
  /\ postPage.open
  /\ [caller |-> "page", cached |-> NoLocation] \in geo.queries
  /\ geo' = Ended([geo EXCEPT !.queries = @ \ {[caller |-> "page", cached |-> NoLocation]}, !.pageLocation = loc],
                  "found")
  /\ UNCHANGED newPost
  /\ FormKept

PagePositionError ==
  /\ postPage.open
  /\ [caller |-> "page", cached |-> NoLocation] \in geo.queries
  /\ geo' = Ended([geo EXCEPT !.queries = @ \ {[caller |-> "page", cached |-> NoLocation]}], "error")
  /\ UNCHANGED newPost
  /\ FormKept

\* -------------------------------------------------------------------- view
\* Mutant of postsInRadius: without a location nothing is listed.
postsInRadiusNeedsLocation ==
  IF userLocation = NoLocation THEN {}
  ELSE {id \in filteredPosts :
          getDistance(userLocation[1], PostLat(id)) <= radiusKm * 1000}

\* postsInRadius (useMemo) of the current render.
postsInRadius ==
  IF userLocation = NoLocation THEN filteredPosts
  ELSE {id \in filteredPosts :
          getDistance(userLocation[1], PostLat(id)) <= radiusKm * 1000}

\* Mutant of getDisplayPosts: the category and favorites filters start from
\* filteredPosts instead of postsInRadius.
getDisplayPostsFromFiltered ==
  LET result == filteredPosts
      byCategory == IF selectedCategory # ""
                    THEN {id \in result : PostCat(id) = selectedCategory}
                    ELSE result
  IN  IF showFavoritesOnly THEN {id \in byCategory : id \in favorites}
                           ELSE byCategory

\* getDisplayPosts() of the current render.
getDisplayPosts ==
  LET result == postsInRadius
      byCategory == IF selectedCategory # ""
                    THEN {id \in result : PostCat(id) = selectedCategory}
                    ELSE result
  IN  IF showFavoritesOnly THEN {id \in byCategory : id \in favorites}
                           ELSE byCategory

\* availableCategories and favoritesCount of the current render.
availableCategories == {PostCat(id) : id \in postsInRadius}
favoritesCount == Cardinality(PostIds(posts) \cap favorites)

\* The step changes view state only.
PollKept ==
  /\ Quiet
  /\ UNCHANGED <<server, posts, lastSeenPostIds, myPostIds, nearbyNotificationsEnabled,
                 userLocation, lsSeen, lsMy, lsEnabled, mounted, timers, interval,
                 inflight, submit>>
  /\ UNCHANGED <<favVars, locVars, extVars>>

\* The radius slider's onChange: setRadiusKm(r).  The render re-creates
\* fetchPosts, so the 'initial fetch' effect fetches again, and the re-filter
\* effect runs.
setRadiusKm(r) ==
  /\ mounted
  /\ r # radiusKm
  /\ Room
  /\ radiusKm' = r
  /\ filteredPosts' = Refilter(PostIds(posts), userLocation, r, filteredPosts)
  /\ inflight' = BagAdd(inflight, FetchPostsReq(FeedOf(server)))
  /\ Quiet
  /\ UNCHANGED <<selectedCategory, showFavoritesOnly, search>>
  /\ UNCHANGED <<server, posts, lastSeenPostIds, myPostIds, nearbyNotificationsEnabled,
                 userLocation, lsSeen, lsMy, lsEnabled, mounted, timers, interval,
                 submit>>
  /\ UNCHANGED <<favVars, locVars>>
  /\ UNCHANGED extVars

\* The 'All' chip (data-testid filter-all).
FilterAll ==
  /\ mounted
  /\ postsInRadius # {}
  /\ selectedCategory' = ""
  /\ showFavoritesOnly' = FALSE
  /\ UNCHANGED <<filteredPosts, radiusKm, search>>
  /\ PollKept

\* The 'Saved' chip (data-testid filter-favorites).
FilterFavorites ==
  /\ mounted
  /\ postsInRadius # {}
  /\ favoritesCount > 0
  /\ showFavoritesOnly' = ~showFavoritesOnly
  /\ selectedCategory' = ""
  /\ UNCHANGED <<filteredPosts, radiusKm, search>>
  /\ PollKept

\* A category chip.
FilterCategory(cat) ==
  /\ mounted
  /\ postsInRadius # {}
  /\ cat \in availableCategories
  /\ selectedCategory' = IF selectedCategory = cat THEN "" ELSE cat
  /\ showFavoritesOnly' = FALSE
  /\ UNCHANGED <<filteredPosts, radiusKm, search>>
  /\ PollKept

\* The search input's onChange: setSearchQuery(q); the debounce effect re-arms.
setSearchQuery(q) ==
  /\ mounted
  /\ q # search.query
  /\ search' = [query |-> q, timer |-> TRUE]
  /\ UNCHANGED <<filteredPosts, radiusKm, selectedCategory, showFavoritesOnly>>
  /\ PollKept

\* The debounce timer fires: handleSearch(searchQuery), or the whole list.
SearchDebounce ==
  /\ mounted
  /\ search.timer
  /\ search' = [search EXCEPT !.timer = FALSE]
  /\ filteredPosts' = IF search.query.typed
                      THEN keywordResults(PostIds(posts), search.query)
                      ELSE PostIds(posts)
  /\ UNCHANGED <<radiusKm, selectedCategory, showFavoritesOnly>>
  /\ PollKept

clearSearch ==
  /\ mounted
  /\ search.query.typed
  /\ search' = [query |-> NoQuery, timer |-> TRUE]
  /\ filteredPosts' = PostIds(posts)
  /\ selectedCategory' = ""
  /\ UNCHANGED <<radiusKm, showFavoritesOnly>>
  /\ PollKept

\* ---------------------------------------------------------------- lifetime
\* The page is left: effect cleanups run and pending continuations are lost.
Unmount ==
  /\ mounted
  /\ mounted' = FALSE
  /\ timers' = PollCleanup
  /\ interval' = NoTimer
  /\ inflight' = EmptyBag
  /\ submit' = NoSubmit
  /\ Quiet
  /\ locating' = NoLocating
  /\ UNCHANGED <<server, posts, lastSeenPostIds, myPostIds, nearbyNotificationsEnabled,
                 userLocation, lsSeen, lsMy, lsEnabled>>
  /\ UNCHANGED <<favVars, viewVars, permission, mapCenter, locationError>>
  /\ geo' = [geo EXCEPT !.checks = {}, !.queries = {}]
  /\ UNCHANGED <<measured, lsFull, banner, newPost>>

\* AppContent mounts: state initialisers read localStorage, effects run.  An
\* initialiser that throws aborts the render: nothing is mounted.
Mount ==
  /\ ~mounted
  /\ ~postPage.open
  /\ IF ParseThrows(lsMy) \/ ParseThrows(lsSeen) \/ ParseThrows(lsFav)
     THEN /\ crashed' = TRUE
          /\ UNCHANGED <<mounted, posts, userLocation, lastSeenPostIds, myPostIds,
                         nearbyNotificationsEnabled, timers, interval, inflight,
                         submit, baseline, fetchLog, favorites, viewVars,
                         mapCenter, locationError, locating>>
          /\ UNCHANGED <<banner, newPost>>
     ELSE /\ crashed' = FALSE
          /\ mounted' = TRUE
          /\ posts' = EmptyFeed
          /\ userLocation' = NoLocation
          /\ lastSeenPostIds' = LoadIds(lsSeen)
          /\ myPostIds' = LoadIds(lsMy)
          /\ nearbyNotificationsEnabled' = LoadFlag(lsEnabled)
          /\ favorites' = LoadIds(lsFav)
          /\ PollEffect(NoLocation, LoadIds(lsMy), LoadIds(lsSeen), LoadFlag(lsEnabled))
          /\ inflight' = SetToBag({FetchPostsReq(FeedOf(server))})
          /\ submit' = NoSubmit
          /\ baseline' = NotFetched
          /\ fetchLog' = [fetchLog EXCEPT !.kind = "none", !.ok = FALSE,
                                          !.tickFailed = FALSE]
          /\ filteredPosts' = {}
          /\ radiusKm' = DefaultRadiusKm
          /\ selectedCategory' = ""
          /\ showFavoritesOnly' = FALSE
          /\ search' = [query |-> NoQuery, timer |-> TRUE]
          /\ mapCenter' = DefaultCenter
          /\ locationError' = IF permission.geo THEN "" ELSE NotSupported
          /\ locating' = IF permission.geo THEN [check |-> 1, sensor |-> 0]
                                           ELSE NoLocating
          /\ banner' = [banner EXCEPT !.notification = 0, !.show = FALSE,
                                        !.hides = <<>>, !.clears = <<>>]
          /\ newPost' = [newPost EXCEPT !.drawer = FALSE, !.image = FALSE,
                                          !.title = FALSE, !.latitude = NoLocation,
                                          !.toast = FALSE]
  /\ NoEvents
  /\ favHist' = NotToggled
  /\ UNCHANGED <<server, lsSeen, lsMy, lsEnabled, lsFav, postPage, permission>>
  /\ UNCHANGED <<measured, lsFull, geo>>

\* -------------------------------------------------------------- favorites
\* Mutant of toggleFavorite: the id is always added, never removed.
toggleFavoriteAddOnly(postId) ==
  /\ mounted
  /\ ~lsFull
  /\ favorites' = favorites \cup {postId}
  /\ lsFav' = Saved(favorites')
  /\ favHist' = Toggled(postId, favorites)
  /\ UNCHANGED <<postPage, crashed>>
  /\ UNCHANGED <<pollVars, viewVars, locVars>>
  /\ UNCHANGED extVars

\* AppContent.toggleFavorite(postId), from the heart button of the detail drawer.
toggleFavorite(postId) ==
  /\ mounted
  /\ ~lsFull
  /\ favorites' = IF postId \in favorites THEN favorites \ {postId}
                                          ELSE favorites \cup {postId}
  /\ lsFav' = Saved(favorites')
  /\ favHist' = Toggled(postId, favorites)
  /\ UNCHANGED <<postPage, crashed>>
  /\ UNCHANGED <<pollVars, viewVars, locVars>>
  /\ UNCHANGED extVars

\* PostPage mounts for /post/:postId: the isFavorited initialiser reads
\* localStorage; if it throws, nothing is mounted.
PostPageMount(postId) ==
  /\ ~mounted
  /\ ~postPage.open
  /\ IF ParseThrows(lsFav)
     THEN crashed' = TRUE /\ UNCHANGED <<postPage, geo>>
     ELSE /\ crashed' = FALSE
          /\ postPage' = [open |-> TRUE, postId |-> postId,
                          isFavorited |-> postId \in LoadIds(lsFav)]
          /\ geo' = IF geo.on
                    THEN [geo EXCEPT !.pageLocation = NoLocation,
                                     !.queries = IF permission.geo
                                                 THEN @ \cup {[caller |-> "page", cached |-> NoLocation]}
                                                 ELSE @]
                    ELSE geo
  /\ favHist' = NotToggled
  /\ UNCHANGED <<favorites, lsFav>>
  /\ UNCHANGED <<pollVars, viewVars, locVars>>
  /\ UNCHANGED <<measured, lsFull, banner, newPost>>

\* PostPage.toggleFavorite: reads the stored list, filters or pushes according
\* to isFavorited, writes the list back.
PostPageToggleFavorite ==
  /\ postPage.open
  /\ ~lsFull
  /\ ~ParseThrows(lsFav)
  /\ lsFav' = Saved(IF postPage.isFavorited
                    THEN LoadIds(lsFav) \ {postPage.postId}
                    ELSE LoadIds(lsFav) \cup {postPage.postId})
  /\ postPage' = [postPage EXCEPT !.isFavorited = ~postPage.isFavorited]
  /\ favHist' = Toggled(postPage.postId, LoadIds(lsFav))
  /\ UNCHANGED <<favorites, crashed>>
  /\ UNCHANGED <<pollVars, viewVars, locVars>>
  /\ UNCHANGED extVars

\* The user leaves PostPage.
PostPageUnmount ==
  /\ postPage.open
  /\ postPage' = NoPostPage
  /\ favHist' = NotToggled
  /\ UNCHANGED <<favorites, lsFav, crashed>>
  /\ UNCHANGED <<pollVars, viewVars, locVars>>
  /\ geo' = [geo EXCEPT !.queries = {}]
  /\ UNCHANGED <<measured, lsFull, banner, newPost>>

Next ==
  \/ \E id \in Ids : ServerCreate(id)
  \/ \E id \in Ids : ServerCollect(id)
  \/ \E id \in Ids : ServerRemove(id)
  \/ FetchPostsStart
  \/ \E r \in BagToSet(inflight), ok \in BOOLEAN : FetchPostsDone(r, ok)
  \/ \E c \in timers : TimerFire(c)
  \/ \E t \in BagToSet(inflight), ok \in BOOLEAN : TickResolve(t, ok)
  \/ \E loc \in UserLats : LocationFound(loc)
  \/ toggleNearbyNotifications
  \/ SubmitStart
  \/ SubmitDone
  \/ Unmount
  \/ Mount

Spec == Init /\ [][Next]_vars

\* ---------------------------------------------------------------- fairness
\* The page stays open with notifications enabled: no toggle, no unmount.
LiveNext ==
  \/ \E id \in Ids : ServerCreate(id)
  \/ \E id \in Ids : ServerCollect(id)
  \/ \E id \in Ids : ServerRemove(id)
  \/ FetchPostsStart
  \/ \E r \in BagToSet(inflight), ok \in BOOLEAN : FetchPostsDone(r, ok)
  \/ \E c \in timers : TimerFire(c)
  \/ \E t \in BagToSet(inflight), ok \in BOOLEAN : TickResolve(t, ok)
  \/ \E loc \in UserLats : LocationFound(loc)
  \/ SubmitStart
  \/ SubmitDone

\* setInterval keeps firing while a timer is armed, fetches succeed again and
\* again, and every pending promise is settled.
Fairness ==
  /\ SF_vars(\E c \in timers : TimerFire(c))
  /\ SF_vars(\E t \in BagToSet(inflight) : TickResolve(t, TRUE))
  /\ WF_vars(\E r \in BagToSet(inflight), ok \in BOOLEAN : FetchPostsDone(r, ok))
  /\ WF_vars(SubmitDone)

LiveSpec == Init /\ [][LiveNext]_vars /\ Fairness

\* ------------------------------------------------- registries in storage
\* What localStorage may hold under a registry key / under the flag key when
\* the app starts: nothing, "", unparsable text, or what the app wrote.
StoredSets == {Absent, Text(""), Text("{oops")} \cup {Saved(S) : S \in SUBSET Ids}
StoredFlags == {"null", "true", "false", "", "yes"}

\* No page is mounted yet; localStorage holds anything.
StoreInit ==
  /\ server = [id \in Ids |-> "none"]
  /\ posts = EmptyFeed
  /\ lsSeen \in StoredSets /\ lsMy \in StoredSets /\ lsFav \in StoredSets
  /\ lsEnabled \in StoredFlags
  /\ lastSeenPostIds = {} /\ myPostIds = {} /\ favorites = {}
  /\ nearbyNotificationsEnabled = TRUE
  /\ userLocation = NoLocation
  /\ mounted = FALSE
  /\ interval = NoTimer /\ timers = {}
  /\ inflight = EmptyBag
  /\ submit = NoSubmit
  /\ notified = [k \in {"nearby", "collected"} |-> {}]
  /\ raised = {}
  /\ baseline = NotFetched
  /\ fetchLog = NoFetch
  /\ postPage = NoPostPage /\ crashed = FALSE /\ favHist = ToggleLog
  /\ ViewInit
  /\ permission = [state |-> "granted", api |-> "ok", geo |-> TRUE]
  /\ mapCenter = DefaultCenter
  /\ locationError = ""
  /\ locating = NoLocating
  /\ ExtInit

\* Loading the registries and toggling them.
StoreNext ==
  \/ Mount
  \/ Unmount
  \/ toggleNearbyNotifications
  \/ \E id \in Ids : toggleFavorite(id)
  \/ \E id \in Ids : PostPageMount(id)
  \/ PostPageToggleFavorite
  \/ PostPageUnmount

StoreSpec == StoreInit /\ [][StoreNext]_vars

\* ------------------------------------------------ every registry mutation
\* Every operation that changes a registry, with what feeds them.  The heart
\* button of one item is used (StoreSpec toggles every item).
RegistryNext ==
  \/ \E id \in Ids : ServerCreate(id)
  \/ \E id \in Ids : ServerCollect(id)
  \/ \E r \in BagToSet(inflight), ok \in BOOLEAN : FetchPostsDone(r, ok)
  \/ \E c \in timers : TimerFire(c)
  \/ \E t \in BagToSet(inflight), ok \in BOOLEAN : TickResolve(t, ok)
  \/ \E loc \in UserLats : LocationFound(loc)
  \/ toggleNearbyNotifications
  \/ \E id \in {1} : toggleFavorite(id)
  \/ SubmitStart
  \/ SubmitDone
  \/ Unmount
  \/ Mount

RegistrySpec == Init /\ [][RegistryNext]_vars

\* ----------------------------------------------------------------- listing
\* The listing: fetches, poll ticks, searches, the radius slider and the
\* filter chips, for a user some kilometres away from the items.
SearchQueries == {Query({1}), Query(Ids)}

ViewNext ==
  \/ \E id \in Ids : ServerCreate(id)
  \/ \E r \in BagToSet(inflight), ok \in BOOLEAN : FetchPostsDone(r, ok)
  \/ \E c \in timers : TimerFire(c)
  \/ \E t \in BagToSet(inflight), ok \in BOOLEAN : TickResolve(t, ok)
  \/ \E loc \in ViewLats : LocationFound(loc)
  \/ \E r \in Radii : setRadiusKm(r)
  \/ FilterAll
  \/ FilterFavorites
  \/ \E cat \in {PostCat(id) : id \in Ids} : FilterCategory(cat)
  \/ \E q \in SearchQueries : setSearchQuery(q)
  \/ SearchDebounce
  \/ clearSearch
  \/ \E id \in Ids : toggleFavorite(id)

ViewSpec == Init /\ [][ViewNext]_vars

\* ---------------------------------------------------------------- distances
\* getDistance on every pair of points.
DistNext == \E A \in Points, B \in Points : Measure(A, B)

DistSpec == Init /\ [][DistNext]_vars

\* ----------------------------------------------------- notification banner
\* The poll loop with the banner and its timers tracked; the page stays
\* mounted with notifications enabled.
BannerInit ==
  /\ PollInit /\ fetchLog = NoFetch /\ FavInit /\ ViewInit /\ LocInit
  /\ measured = NoMeasure
  /\ lsFull = FALSE
  /\ banner = [NoBanner EXCEPT !.on = TRUE]
  /\ newPost = NoPost
  /\ geo = NoGeo

BannerNext ==
  \/ \E id \in Ids : ServerCreate(id)
  \/ \E id \in Ids : ServerCollect(id)
  \/ \E r \in BagToSet(inflight), ok \in BOOLEAN : FetchPostsDone(r, ok)
  \/ \E c \in timers : TimerFire(c)
  \/ \E t \in BagToSet(inflight), ok \in BOOLEAN : TickResolve(t, ok)
  \/ \E loc \in UserLats : LocationFound(loc)
  \/ SubmitStart
  \/ SubmitDone
  \/ HideTimer
  \/ ClearTimer
  \/ DismissBanner

BannerSpec == BannerInit /\ [][BannerNext]_vars

\* ------------------------------------------------------ location requests
\* requestLocation in any browser: with or without navigator.geolocation and
\* the Permissions API, in every permission state.
Browsers ==
  [state : {"granted", "denied", "prompt"}, api : {"ok", "missing", "throws"},
   geo : BOOLEAN]
\* Latitudes of the geocoder's results (handleSearch).
ResultLats == {<<-33868>>}

LocSpecInit ==
  /\ PollInit /\ fetchLog = NoFetch /\ FavInit /\ ViewInit
  /\ permission \in Browsers
  /\ mapCenter = DefaultCenter
  /\ locationError = IF permission.geo THEN "" ELSE NotSupported
  /\ locating = IF permission.geo THEN [check |-> 1, sensor |-> 0] ELSE NoLocating
  /\ ExtInit

LocNext ==
  \/ requestLocation
  \/ PermissionChecked
  \/ \E loc \in UserLats : PositionFound(loc)
  \/ \E errorMsg \in SensorErrors : PositionError(errorMsg)
  \/ \E state \in {"granted", "denied", "prompt"} : PermissionChange(state)
  \/ \E q \in SearchQueries : setSearchQuery(q)
  \/ \E lat \in ResultLats : handleSearchResultClick(lat)
  \/ \E r \in BagToSet(inflight), ok \in BOOLEAN : FetchPostsDone(r, ok)
  \/ Unmount
  \/ Mount

LocSpec == LocSpecInit /\ [][LocNext]_vars

\* -------------------------------------------------- every location request
\* requestLocation, the post form and PostPage in a browser with or without
\* navigator.geolocation and the Permissions API, in every permission state.
\* The sensor reports latitude 60, which the form accepts (0 would be falsy).
GeoInit ==
  /\ PollInit /\ fetchLog = NoFetch /\ FavInit /\ ViewInit
  /\ permission \in {b \in Browsers : b.api # "throws"}
  /\ mapCenter = DefaultCenter
  /\ locationError = IF permission.geo THEN "" ELSE NotSupported
  /\ locating = IF permission.geo THEN [check |-> 1, sensor |-> 0] ELSE NoLocating
  /\ measured = NoMeasure
  /\ lsFull = FALSE
  /\ banner = NoBanner
  /\ newPost = [NoPost EXCEPT !.on = TRUE]
  /\ geo = [NoGeo EXCEPT !.on = TRUE]

GeoNext ==
  \/ requestLocation
  \/ PermissionChecked
  \/ \E loc \in {<<60>>} : PositionFound(loc)
  \/ \E errorMsg \in SensorErrors : PositionError(errorMsg)
  \/ \E state \in {"granted", "denied", "prompt"} : PermissionChange(state)
  \/ \E r \in BagToSet(inflight), ok \in BOOLEAN : FetchPostsDone(r, ok)
  \/ openDrawer
  \/ processImage
  \/ \E c \in geo.checks : ImagePermissionChecked(c)
  \/ RefreshLocation
  \/ UseCurrentLocation
  \/ \E q \in geo.queries, loc \in {<<60>>} : FormPositionFound(q, loc)
  \/ \E q \in geo.queries : FormPositionError(q)
  \/ \E loc \in {<<60>>} : PagePositionFound(loc)
  \/ PagePositionError
  \/ Unmount
  \/ Mount
  \/ \E postId \in Ids : PostPageMount(postId)
  \/ PostPageUnmount

GeoSpec == GeoInit /\ [][GeoNext]_vars

\* ------------------------------------------------------------ submitting
\* The post form, handleSubmitPost and the poll loop; the service creates and
\* hands over items; the sensor reports a latitude the form accepts.
SubmitInit ==
  /\ PollInit /\ fetchLog = NoFetch /\ FavInit /\ ViewInit /\ LocInit
  /\ measured = NoMeasure
  /\ lsFull = FALSE
  /\ banner = NoBanner
  /\ newPost = [NoPost EXCEPT !.on = TRUE]
  /\ geo = [NoGeo EXCEPT !.on = TRUE]

SubmitNext ==
  \/ \E id \in Ids : ServerCollect(id)
  \/ \E r \in BagToSet(inflight), ok \in BOOLEAN : FetchPostsDone(r, ok)
  \/ \E c \in timers : TimerFire(c)
  \/ \E t \in BagToSet(inflight), ok \in BOOLEAN : TickResolve(t, ok)
  \/ \E filled \in BOOLEAN : setTitle(filled)
  \/ processImage
  \/ \E c \in geo.checks : ImagePermissionChecked(c)
  \/ \E q \in geo.queries, loc \in {<<60>>} : FormPositionFound(q, loc)
  \/ SubmitRejected
  \/ ToastGone
  \/ SubmitStart
  \/ SubmitDone

SubmitSpec == SubmitInit /\ [][SubmitNext]_vars

\* ------------------------------------------------------------ full store
\* The registries and the poll loop while the store fills up and is freed.
QuotaNext ==
  \/ \E full \in BOOLEAN : StorageFull(full)
  \/ \E id \in Ids : ServerCollect(id)
  \/ \E r \in BagToSet(inflight), ok \in BOOLEAN : FetchPostsDone(r, ok)
  \/ \E r \in BagToSet(inflight) : FetchPostsDoneThrows(r)
  \/ \E c \in timers : TimerFire(c)
  \/ \E t \in BagToSet(inflight), ok \in BOOLEAN : TickResolve(t, ok)
  \/ \E t \in BagToSet(inflight) : TickResolveThrows(t)
  \/ toggleNearbyNotifications
  \/ toggleNearbyNotificationsThrows
  \/ \E id \in Ids : toggleFavorite(id)
  \/ \E id \in Ids : toggleFavoriteThrows(id)
  \/ SubmitStart
  \/ SubmitDone
  \/ SubmitDoneThrows
  \/ Mount

QuotaSpec == Init /\ [][QuotaNext]_vars

\* --------------------------------------------------------- fetch outcomes
\* The feed fetches and the poll loop with the outcome of every fetch logged.
FetchInit ==
  PollInit /\ fetchLog = Logging /\ FavInit /\ ViewInit /\ LocInit /\ ExtInit

FetchNext ==
  \/ \E id \in Ids : ServerCreate(id)
  \/ \E id \in Ids : ServerCollect(id)
  \/ FetchPostsStart
  \/ \E r \in BagToSet(inflight), ok \in BOOLEAN : FetchPostsDone(r, ok)
  \/ \E c \in timers : TimerFire(c)
  \/ \E t \in BagToSet(inflight), ok \in BOOLEAN : TickResolve(t, ok)
  \/ \E loc \in UserLats : LocationFound(loc)
  \/ toggleNearbyNotifications
  \/ SubmitStart
  \/ SubmitDone

FetchSpec == FetchInit /\ [][FetchNext]_vars


\* ------------------------------------------------------------------ claims
\* How far an item has come at the service: not listed, active, collected.
StatusRank(status) ==
  CASE status = "collected" -> 2
    [] status = "active" -> 1
    [] OTHER -> 0

Ticks == {r \in BagToSet(inflight) : r.kind = "tick"}
Near(loc, id) == getDistance(loc[1], PostLat(id)) <= nearbyRadius * 1000

\* C1: no id has a "nearby" event raised for it more than once, and no tick
\* raises "nearby" for an id that is already in SeenSet.
C1_NearbyAtMostOnce ==
  [][\A id \in Ids :
       <<"nearby", id>> \in raised' =>
         id \notin notified["nearby"] /\ id \notin lastSeenPostIds]_vars

\* C2: no owned id has a "collected" event raised for it more than once, and
\* right after the event the id is in OwnedPostSet neither in memory nor in
\* localStorage.
C2_CollectedAtMostOnce ==
  [][\A id \in Ids :
       <<"collected", id>> \in raised' =>
         /\ id \notin notified["collected"]
         /\ id \notin myPostIds'
         /\ id \notin LoadIds(lsMy')]_vars

\* C3: starting from an empty SeenSet, the first successful fetch adds every
\* fetched id to SeenSet and raises no "nearby" event, and no id absorbed by
\* that baseline raises a "nearby" event later.
C3_InitialBaseline ==
  [][/\ (~baseline.done /\ baseline'.done /\ lastSeenPostIds = {}) =>
          /\ baseline'.ids \subseteq lastSeenPostIds'
          /\ \A id \in Ids : <<"nearby", id>> \notin raised'
     /\ \A id \in Ids :
          (/\ baseline.done
           /\ id \in baseline.ids
           /\ id \in lastSeenPostIds
           /\ id \notin notified["nearby"]) => <<"nearby", id>> \notin raised']_vars

\* C4: an active item that is not owned and appears in the feed after the
\* baseline, within nearbyRadius of the current location, is notified as
\* "nearby" and added to SeenSet by the first tick that fetches it while
\* notifications are enabled and a location is available.
C4_PostBaselineDetection ==
  [][\A t \in Ticks, id \in Ids :
       (/\ TickResolve(t, TRUE)
        /\ baseline.done
        /\ id \notin baseline.ids
        /\ id \notin notified["nearby"]
        /\ t.data[id] = "active"
        /\ id \notin myPostIds /\ id \notin t.my
        /\ nearbyNotificationsEnabled /\ ~t.torn
        /\ t.loc # NoLocation
        /\ userLocation # NoLocation
        /\ Near(userLocation, id))
       => (<<"nearby", id>> \in raised' /\ id \in lastSeenPostIds')]_vars

\* C5: a tick that was sent while the id was owned, fetches the feed
\* successfully and finds the owned item collected raises a "collected" event
\* for it and removes the id from OwnedPostSet (memory and localStorage).
C5_CollectedDetection ==
  [][\A t \in Ticks, id \in Ids :
       (/\ TickResolve(t, TRUE)
        /\ t.data[id] = "collected"
        /\ id \in t.my
        /\ id \in myPostIds)
       => (/\ <<"collected", id>> \in raised'
           /\ id \notin myPostIds'
           /\ id \notin LoadIds(lsMy'))]_vars

\* C5 (liveness part): with notifications enabled and fetches eventually
\* succeeding, an owned item the service holds as collected eventually leaves
\* OwnedPostSet; together with the safety part above.
C5_CollectedEventually ==
  /\ C5_CollectedDetection
  /\ \A id \in Ids :
       (id \in myPostIds /\ server[id] = "collected") ~> (id \notin myPostIds)

\* C5 witness: a "collected" event has just been raised for an item the
\* service holds as collected, and the id has left OwnedPostSet.
C5_Witness ==
  \E id \in Ids :
    /\ <<"collected", id>> \in raised
    /\ server[id] = "collected"
    /\ id \notin myPostIds

\* C6: an id enters OwnedPostSet only when handleSubmitPost completes a
\* successful creation of that id, and an id removed after its "collected"
\* event never re-enters.
C6_OwnedAddOnceRemoveOnce ==
  [][\A id \in Ids :
       /\ (id \notin myPostIds /\ id \in myPostIds') =>
             (submit.busy /\ submit.id = id /\ ~submit'.busy)
       /\ (id \in notified["collected"] /\ id \notin myPostIds) =>
             id \notin myPostIds']_vars

\* C7: a "nearby" event is raised only for an item that is active, in neither
\* SeenSet nor OwnedPostSet as they stand when the event is raised, and at
\* most nearbyRadius from the current location.
C7_NearbyOnlyWhenDue ==
  [][\A id \in Ids :
       <<"nearby", id>> \in raised' =>
         /\ posts'[id] = "active"
         /\ id \notin lastSeenPostIds
         /\ id \notin myPostIds
         /\ userLocation # NoLocation
         /\ Near(userLocation, id)]_vars

\* C8: a tick whose poll effect was torn down while its fetch was pending
\* raises no event and changes neither SeenSet, OwnedPostSet nor the feed.
C8_TeardownDiscards ==
  [][\A t \in Ticks :
       (t.torn /\ (TickResolve(t, TRUE) \/ TickResolve(t, FALSE))) =>
         (raised' = {} /\ UNCHANGED <<lastSeenPostIds, myPostIds, posts>>)]_vars

\* C9: a poll timer is armed exactly while AppContent is mounted with
\* NotificationsEnabled true, and every pending tick of a poll effect that is
\* still in place was started with the flag true.
C9_LoopOnlyWhileEnabled ==
  /\ (timers # {}) <=> (mounted /\ nearbyNotificationsEnabled)
  /\ \A t \in Ticks : ~t.torn => nearbyNotificationsEnabled

\* C9 witness: notifications were switched off while a tick was pending; no
\* timer is armed.
C9_Witness ==
  /\ mounted
  /\ ~nearbyNotificationsEnabled
  /\ timers = {}
  /\ \E t \in Ticks : t.torn

\* C10: no step removes an id from SeenSet or from its persisted copy.
C10_SeenSetMonotonic ==
  [][/\ lastSeenPostIds \subseteq lastSeenPostIds'
     /\ LoadIds(lsSeen) \subseteq LoadIds(lsSeen')]_vars

\* C10 witness: after a tick has appended to SeenSet and a later fetch has
\* replaced the feed, SeenSet still holds an id that has left the feed.
C10_Witness ==
  /\ mounted
  /\ baseline.done
  /\ notified["nearby"] # {}
  /\ \E id \in lastSeenPostIds : server[id] = "removed" /\ posts[id] = "none"
  /\ LoadIds(lsSeen) = lastSeenPostIds

\* C11: a step that resolves a failed feed fetch (fetchPosts or a poll tick)
\* leaves the feed snapshot, SeenSet and OwnedPostSet (in memory and persisted)
\* exactly as they were and raises no notification event.
C11_FailedRefreshChangesNothing ==
  [][(fetchLog'.kind \in {"fetchPosts", "tick"} /\ ~fetchLog'.ok) =>
       /\ posts' = posts
       /\ lastSeenPostIds' = lastSeenPostIds
       /\ myPostIds' = myPostIds
       /\ UNCHANGED <<lsSeen, lsMy>>
       /\ raised' = {}]_vars

\* C11 witness: a fetch has just failed and the non-empty feed snapshot and the
\* registries are still there.
C11_Witness ==
  /\ fetchLog.kind \in {"fetchPosts", "tick"}
  /\ ~fetchLog.ok
  /\ PostIds(posts) # {}
  /\ lastSeenPostIds # {}
  /\ myPostIds # {}

\* C12: a step that resolves a failed poll tick removes that one pending
\* request and sends no other, leaves the armed timer as it is, and the timer
\* is armed whenever notifications are enabled.
C12_FailedTickKeepsLoop ==
  [][(fetchLog'.kind = "tick" /\ ~fetchLog'.ok) =>
       /\ \E t \in Ticks : inflight' = BagRemove(inflight, t)
       /\ UNCHANGED <<timers, interval>>
       /\ nearbyNotificationsEnabled' => timers' # {}]_vars

\* C12 witness: after a tick failed, a later tick has just succeeded and raised
\* an event, and the timer is still armed.
C12_Witness ==
  /\ fetchLog.tickFailed
  /\ fetchLog.kind = "tick"
  /\ fetchLog.ok
  /\ raised # {}
  /\ timers # {}

\* The persisted value is missing or is not the JSON text of an array.
Malformed(saved) == ~saved.has \/ "text" \in DOMAIN saved

\* C13: loading never fails: AppContent and PostPage always mount, and a
\* registry whose persisted value is missing or malformed loads as the empty set.
C13_LoadNeverFails ==
  [][/\ Mount =>
          /\ ~crashed' /\ mounted'
          /\ Malformed(lsMy) => myPostIds' = {}
          /\ Malformed(lsSeen) => lastSeenPostIds' = {}
          /\ Malformed(lsFav) => favorites' = {}
     /\ \A id \in Ids : PostPageMount(id) =>
          /\ ~crashed' /\ postPage'.open
          /\ Malformed(lsFav) => ~postPage'.isFavorited]_vars

\* C14: NotificationsEnabled loads false only from the stored flag "false";
\* an absent value and any other stored text load the default true.
C14_FlagLoadsDefault ==
  [][(Mount /\ mounted') =>
       nearbyNotificationsEnabled' = (lsEnabled # "false")]_vars

\* C16: toggling the same id twice in a row restores FavoriteSet exactly (the
\* membership of the id and of every other id), in AppContent (memory and
\* persisted copy) and in PostPage (persisted copy and isFavorited).
C16_FavoritesDoubleToggle ==
  [][/\ \A id \in Ids :
          (toggleFavorite(id) /\ favHist.id = id) =>
             /\ favorites' = favHist.before
             /\ LoadIds(lsFav') = favHist.before
     /\ (PostPageToggleFavorite /\ favHist.id = postPage.postId) =>
             /\ LoadIds(lsFav') = favHist.before
             /\ postPage'.isFavorited = (postPage.postId \in favHist.before)]_vars

\* C16 witness: an id has just been toggled twice in a row in AppContent, with
\* another id in FavoriteSet, and the toggled id is a favorite again.
C16_Witness ==
  /\ mounted
  /\ favHist.run = 2
  /\ favHist.id \in favorites
  /\ favorites \ {favHist.id} # {}

C17_RadiusMonotonic ==
  /\ [](\A r1 \in Radii, r2 \in Radii :
          r1 <= r2 =>
            \A allPosts \in {PostIds(posts), filteredPosts} :
              filterPostsByRadius(allPosts, userLocation, r1)
                \subseteq filterPostsByRadius(allPosts, userLocation, r2))
  /\ [][(/\ userLocation' = userLocation
         /\ filteredPosts' = filteredPosts
         /\ radiusKm' >= radiusKm) => postsInRadius \subseteq postsInRadius']_vars

\* C17 witness: the slider was moved to 10 km, where the filter keeps an item
\* that it drops at 5 km and drops another one.
C17_Witness ==
  /\ mounted
  /\ userLocation # NoLocation
  /\ radiusKm = MinRadiusKm + RadiusStep
  /\ postsInRadius # {}
  /\ postsInRadius # filteredPosts
  /\ filterPostsByRadius(filteredPosts, userLocation, MinRadiusKm) # postsInRadius

\* C18: whenever a location is available, getDisplayPosts holds no item
\* farther than radiusKm from it, only items of the selected category when
\* one is selected, and only favorites when favorites-only is on.
C18_DisplaySet ==
  userLocation # NoLocation =>
    \A id \in getDisplayPosts :
      /\ getDistance(userLocation[1], PostLat(id)) <= radiusKm * 1000
      /\ selectedCategory # "" => PostCat(id) = selectedCategory
      /\ showFavoritesOnly => id \in favorites

\* C18 witness: filteredPosts holds an item outside the radius (the debounced
\* search put the whole list there), a category is selected, and something
\* is displayed.
C18_Witness ==
  /\ mounted
  /\ userLocation # NoLocation
  /\ filteredPosts \ postsInRadius # {}
  /\ selectedCategory # ""
  /\ getDisplayPosts # {}

\* C19: without a location the radius filter hides nothing: postsInRadius is
\* filteredPosts, and filterPostsByRadius returns every list unchanged at
\* every radius.
C19_NoLocationKeepsAll ==
  userLocation = NoLocation =>
    /\ postsInRadius = filteredPosts
    /\ \A r \in Radii, allPosts \in SUBSET Ids :
         filterPostsByRadius(allPosts, userLocation, r) = allPosts

\* C19 witness: no location, the slider at its smallest radius, and the whole
\* list is still listed.
C19_Witness ==
  /\ mounted
  /\ userLocation = NoLocation
  /\ radiusKm = MinRadiusKm
  /\ filteredPosts = Ids
  /\ postsInRadius = Ids

\* C20: a requestLocation call whose permission check reports 'denied' does
\* not call getCurrentPosition, sets a location error, leaves userLocation as
\* it is and sets the map center to the default center.
C20_DeniedShortCircuits ==
  [][(/\ mounted /\ mounted'
      /\ locating'.check = locating.check - 1
      /\ checkLocationPermission = "denied")
     => /\ locating'.sensor = locating.sensor
        /\ locationError' # ""
        /\ userLocation' = userLocation
        /\ mapCenter' = DefaultCenter]_vars

\* C20 witness: a location had been found and the map moved; a later
\* requestLocation met 'denied' and ended with the error and the default
\* center, the location kept, nothing pending.
C20_Witness ==
  /\ mounted
  /\ checkLocationPermission = "denied"
  /\ locationError = PermissionDenied
  /\ locating = NoLocating
  /\ userLocation # NoLocation
  /\ mapCenter = DefaultCenter

\* C21: getDistance returns 0 for two identical points and the same value
\* for (A, B) as for (B, A).
C21_DistanceZeroSymmetric ==
  measured.done =>
    /\ measured.from = measured.to => measured.km = 0
    /\ measured.km = getDistanceLatLon(measured.to[1], measured.to[2],
                                       measured.from[1], measured.from[2])

\* C21 witness: a distance between two points that differ in latitude and in
\* longitude has been computed, and it is not 0.
C21_Witness ==
  /\ measured.done
  /\ measured.from[1] # measured.to[1]
  /\ measured.from[2] # measured.to[2]
  /\ measured.km > 0

\* C22: an id leaves OwnedPostSet only in a step that raises 'collected' for
\* it and whose freshly fetched feed (the step sets posts to it) has the item
\* with status 'collected'; no 'collected' event is raised for an item that is
\* missing from that feed or has another status.
C22_ReleasedOnlyWhenCollected ==
  [][\A id \in Ids :
       /\ (id \in myPostIds /\ id \notin myPostIds')
            => (posts'[id] = "collected" /\ <<"collected", id>> \in raised')
       /\ <<"collected", id>> \in raised' => posts'[id] = "collected"]_vars

\* C22 witness: a tick has just released one own item, and kept another own
\* item that its feed does not show as collected.
C22_Witness ==
  /\ mounted
  /\ \E id \in Ids : <<"collected", id>> \in raised /\ id \notin myPostIds
  /\ \E id \in myPostIds : posts[id] # "collected"

C24_NotificationLifetime ==
  [][/\ banner'.serial > banner.serial
          => banner'.notification = banner'.serial /\ banner'.show
     /\ (banner.show /\ ~banner'.show /\ banner'.hides # banner.hides)
          => Head(banner.hides) = banner.notification
     /\ (banner.notification # 0 /\ banner'.notification = 0 /\ mounted)
          => Head(banner.clears) = banner.notification]_vars

\* C25: every step that issues a geolocation sensor query (requestLocation,
\* processImage, the form's buttons, PostPage) completes a permission check,
\* and the status that check reports is not 'denied'.
C25_CheckedBeforeQuery ==
  [][Queries' > Queries
       => (Checks' < Checks /\ checkLocationPermission # "denied")]_vars

\* C26: while AppContent stays mounted, userLocation changes only in a step in
\* which a location request ends successfully; a request that ends with a
\* failure (permission denied, sensor error, unsupported) leaves it as it was.
C26_FailureKeepsLocation ==
  [][(mounted /\ mounted' /\ userLocation' # userLocation)
       => (geo'.ended # geo.ended /\ geo'.last = "found")]_vars

\* A request has failed while userLocation was set.
C26_Witness ==
  /\ mounted
  /\ geo.last \in {"error", "denied"}
  /\ userLocation # NoLocation

\* C27: when handleSubmitPost completes after a create that returned an id,
\* that id and every id tracked just before are in myPostIds and in
\* 'ucycle_my_posts'; after a failed create, or a submit rejected for missing
\* fields, both are as they were.
C27_OwnedFollowsCreation ==
  [][/\ (submit.busy /\ ~submit'.busy /\ mounted' /\ submit.id # 0)
          => /\ (myPostIds \cup {submit.id}) \subseteq myPostIds'
             /\ ~ParseThrows(lsMy')
             /\ (LoadIds(lsMy) \cup {submit.id}) \subseteq LoadIds(lsMy')
     /\ (submit.busy /\ ~submit'.busy /\ mounted' /\ submit.id = 0)
          => (myPostIds' = myPostIds /\ lsMy' = lsMy)
     /\ (~newPost.toast /\ newPost'.toast)
          => (myPostIds' = myPostIds /\ lsMy' = lsMy /\ submit' = submit
              /\ server' = server)]_vars

\* A create has succeeded while another item was already tracked.
C27_Witness ==
  /\ mounted
  /\ ~submit.busy
  /\ Cardinality(myPostIds) = 2
  /\ LoadIds(lsMy) = myPostIds

\* C28: a failing localStorage.setItem is contained: no step takes the page
\* down, and a submit whose create succeeded ends with the new id tracked and
\* the feed fetched again, as it does when the write succeeds.
C28_WriteFailureContained ==
  [][/\ mounted => ~crashed'
     /\ (mounted /\ submit.busy /\ ~submit'.busy /\ submit.id # 0)
          => /\ submit.id \in myPostIds'
             /\ BagIn(FetchPostsReq(FeedOf(server)), inflight')]_vars

\* C29: in every reachable state at most one poll interval timer is armed, and
\* it is the one the current poll effect armed.
C29_SinglePollTimer ==
  /\ Cardinality(timers) <= 1
  /\ timers = interval

\* The poll effect has been re-created for a new location and a new SeenSet,
\* and one timer is armed.
C29_Witness ==
  /\ mounted
  /\ Cardinality(timers) = 1
  /\ \E c \in timers : c.loc # NoLocation /\ c.seen # {} /\ c.my # {}

\* C30: the feed snapshot never regresses.  The service of FetchSpec only
\* creates and hands over items, so the list a later-issued fetch carries is
\* at least as advanced, item by item, as the list of an earlier-issued one:
\* no step takes an item of posts back to an earlier status, as the response
\* of an earlier-issued fetch applied after a later-issued one would.
C30_FeedNeverRegresses ==
  [][\A id \in Ids : StatusRank(posts'[id]) >= StatusRank(posts[id])]_vars

=============================================================================
